---- MODULE Spec2Model ----
(***************************************************************************)
(* Model of src/GPS.py: the AT-command GPS session of a SIM7600G modem.    *)
(*                                                                         *)
(* A Python bytes object is a sequence of one-character strings, so that   *)
(* splitlines, split, startswith, "in" and slicing are computed on the     *)
(* characters as the interpreter computes them.                            *)
(***************************************************************************)
EXTENDS Integers, Sequences, FiniteSets, TLC

(***************************************************************************)
(* Module constants of GPS.py (lines 13-19) and the literals of the code.  *)
(***************************************************************************)
GPS_STANDALONE == <<"A","T","+","C","G","P","S","=","1",",","1">>
GPS_STOP == <<"A","T","+","C","G","P","S","=","0">>
GPS_INFO == <<"A","T","+","C","G","P","S","I","N","F","O">>

\* b'\r\n', appended to every command written (lines 63, 70)
CRLF == <<"\r","\n">>
\* b'OK': the marker of the start and stop commands, the last line of a reply
OK == <<"O","K">>
\* b'AT+CGPSINFO': the echo parse_gpsinfo requires as first line (line 34)
ECHO_INFO == <<"A","T","+","C","G","P","S","I","N","F","O">>
\* b'+CGPSINFO: ': the marker of the poll and the prefix of the data line
PREFIX == <<"+","C","G","P","S","I","N","F","O",":"," ">>
\* b',,,,,,': what get_gps_position looks for in the answer (line 96)
SIX_COMMAS == <<",",",",",",",",",",",">>

(***************************************************************************)
(* bytes operations                                                        *)
(***************************************************************************)
\* s[lo:hi] for 0 <= lo, Python-style clamping to the length
Slice(s, lo, hi) ==
    LET h == IF hi > Len(s) THEN Len(s) ELSE hi
    IN  IF lo >= h THEN << >> ELSE SubSeq(s, lo + 1, h)

\* s[lo:]
SliceFrom(s, lo) == Slice(s, lo, Len(s))

\* s.startswith(p)
StartsWith(s, p) == Len(s) >= Len(p) /\ SubSeq(s, 1, Len(p)) = p

\* sub in s
Contains(sub, s) ==
    \E i \in 1..(Len(s) - Len(sub) + 1) : SubSeq(s, i, i + Len(sub) - 1) = sub

\* the k-th smallest element of a finite set of integers
Nth(S, k) == CHOOSE e \in S : Cardinality({x \in S : x < e}) = k - 1

\* bytes.splitlines(): a line ends at \r\n, at \r or at \n; there is no empty
\* last line after a final line end.
SplitLines(s) ==
    LET \* the index of the last byte of each line end
        ends == {i \in DOMAIN s :
                    \/ s[i] = "\n"
                    \/ s[i] = "\r" /\ ~(i < Len(s) /\ s[i + 1] = "\n")}
        \* the index of its first byte
        first(e) == IF s[e] = "\n" /\ e > 1 /\ s[e - 1] = "\r" THEN e - 1 ELSE e
        n == Cardinality(ends)
        from(k) == IF k = 1 THEN 1 ELSE Nth(ends, k - 1) + 1
        closed == [k \in 1..n |-> SubSeq(s, from(k), first(Nth(ends, k)) - 1)]
    IN  IF from(n + 1) > Len(s) THEN closed
        ELSE Append(closed, SubSeq(s, from(n + 1), Len(s)))

\* bytes.split(sep) for a one-byte separator: always at least one field
Split(s, sep) ==
    LET seps == {i \in DOMAIN s : s[i] = sep}
        n == Cardinality(seps)
        from(k) == IF k = 1 THEN 1 ELSE Nth(seps, k - 1) + 1
        to(k) == IF k = n + 1 THEN Len(s) ELSE Nth(seps, k) - 1
    IN  [k \in 1..(n + 1) |-> SubSeq(s, from(k), to(k))]

\* s[-1]
Last(q) == q[Len(q)]

\* concatenation of a sequence of bytes objects
RECURSIVE Flatten(_)
Flatten(ss) == IF ss = << >> THEN << >> ELSE Head(ss) \o Flatten(Tail(ss))

(***************************************************************************)
(* Values a Python call ends with: a returned value or a raised exception. *)
(***************************************************************************)
None == [tag |-> "None"]
Raise(exc, why) == [tag |-> "Raise", exc |-> exc, why |-> why]
IsRaise(r) == r.tag = "Raise"

(***************************************************************************)
(* float(b): the model covers texts over the digits, '.', a leading sign   *)
(* and arbitrary other bytes (which make float raise); whitespace,         *)
(* exponents, underscores, inf and nan do not occur in the inputs.         *)
(* A float is kept as an exact fraction num/den.                           *)
(***************************************************************************)
DIGITS == <<"0","1","2","3","4","5","6","7","8","9">>
IsDigit(c) == \E i \in DOMAIN DIGITS : DIGITS[i] = c
DigitVal(c) == (CHOOSE i \in DOMAIN DIGITS : DIGITS[i] = c) - 1
AllDigits(s) == \A i \in DOMAIN s : IsDigit(s[i])

RECURSIVE IntOf(_)
IntOf(s) ==
    IF s = << >> THEN 0
    ELSE IntOf(SubSeq(s, 1, Len(s) - 1)) * 10 + DigitVal(s[Len(s)])

RECURSIVE Pow10(_)
Pow10(k) == IF k <= 0 THEN 1 ELSE 10 * Pow10(k - 1)

Float(n, d) == [tag |-> "float", num |-> n, den |-> d]

PyFloat(text) ==
    LET signed == text # << >> /\ text[1] \in {"+", "-"}
        sign == IF signed /\ text[1] = "-" THEN -1 ELSE 1
        body == IF signed THEN Tail(text) ELSE text
        dots == {i \in DOMAIN body : body[i] = "."}
        wellformed == /\ \A i \in DOMAIN body : IsDigit(body[i]) \/ body[i] = "."
                      /\ Cardinality(dots) <= 1
                      /\ \E i \in DOMAIN body : IsDigit(body[i])
        p == IF dots = {} THEN Len(body) + 1 ELSE CHOOSE i \in dots : TRUE
        digs == SubSeq(body, 1, p - 1) \o SubSeq(body, p + 1, Len(body))
    IN  IF wellformed
        THEN Float(sign * IntOf(digs), Pow10(Len(body) - p))
        ELSE Raise("ValueError", "float")

\* a + b / 60 on fractions (lines 45, 46)
AddSixtieth(a, b) == Float(a.num * b.den * 60 + b.num * a.den, a.den * b.den * 60)
Neg(a) == Float(-a.num, a.den)

\* bytes == str (lines 47, 49): in Python 3 a bytes object never equals a str
BytesEqStr(b, s) == FALSE

(***************************************************************************)
(* datetime.strptime(date + ' ' + utctime, '%d%m%y %H%M%S.%f') for fields  *)
(* without whitespace. Each directive matches its two-digit alternatives   *)
(* before its one-digit one, as the regular expression of _strptime does.  *)
(***************************************************************************)
\* the lengths (of %d, %m or of %H, %M, %S) in the order the regex tries them
LENGTHS2 == << <<2, 2>>, <<2, 1>>, <<1, 2>>, <<1, 1>> >>
LENGTHS3 == << <<2, 2, 2>>, <<2, 2, 1>>, <<2, 1, 2>>, <<2, 1, 1>>,
               <<1, 2, 2>>, <<1, 2, 1>>, <<1, 1, 2>>, <<1, 1, 1>> >>

\* %d: 3[0-1] | [1-2]\d | 0[1-9] | [1-9]
MatchDay(t) == AllDigits(t) /\ IntOf(t) \in 1..31 /\ (Len(t) = 1 \/ t[1] \in {"0","1","2","3"})
\* %m: 1[0-2] | 0[1-9] | [1-9]
MatchMonth(t) == AllDigits(t) /\ IF Len(t) = 2 THEN IntOf(t) \in 1..12 ELSE IntOf(t) \in 1..9
\* %H: 2[0-3] | [0-1]\d | \d
MatchHour(t) == AllDigits(t) /\ IntOf(t) \in 0..23
\* %M: [0-5]\d | \d
MatchMinute(t) == AllDigits(t) /\ IntOf(t) \in 0..59
\* %S: 6[0-1] | [0-5]\d | \d
MatchSecond(t) == AllDigits(t) /\ IntOf(t) \in 0..61

IsLeap(y) == (y % 4 = 0 /\ y % 100 # 0) \/ y % 400 = 0
DaysInMonth(y, m) ==
    IF m = 2 THEN (IF IsLeap(y) THEN 29 ELSE 28)
    ELSE IF m \in {4, 6, 9, 11} THEN 30 ELSE 31

Strptime(date, utctime) ==
    LET dcand == {i \in DOMAIN LENGTHS2 :
                    /\ Len(date) = LENGTHS2[i][1] + LENGTHS2[i][2] + 2
                    /\ MatchDay(Slice(date, 0, LENGTHS2[i][1]))
                    /\ MatchMonth(Slice(date, LENGTHS2[i][1], LENGTHS2[i][1] + LENGTHS2[i][2]))
                    /\ AllDigits(SliceFrom(date, Len(date) - 2))}
        dots == {i \in DOMAIN utctime : utctime[i] = "."}
        p == IF dots = {} THEN Len(utctime) + 1
             ELSE CHOOSE i \in dots : \A j \in dots : i <= j
        whole == SubSeq(utctime, 1, p - 1)
        frac == SubSeq(utctime, p + 1, Len(utctime))
        tcand == {i \in DOMAIN LENGTHS3 :
                    LET a == LENGTHS3[i][1]
                        b == LENGTHS3[i][2]
                        c == LENGTHS3[i][3]
                    IN  /\ Len(whole) = a + b + c
                        /\ MatchHour(Slice(whole, 0, a))
                        /\ MatchMinute(Slice(whole, a, a + b))
                        /\ MatchSecond(Slice(whole, a + b, a + b + c))}
        fracOk == dots # {} /\ Len(frac) \in 1..6 /\ AllDigits(frac)
    IN  IF dcand = {} \/ tcand = {} \/ ~fracOk
        THEN Raise("ValueError", "strptime")
        ELSE
          LET di == CHOOSE i \in dcand : \A j \in dcand : i <= j
              ti == CHOOSE i \in tcand : \A j \in tcand : i <= j
              dl == LENGTHS2[di][1]
              ml == LENGTHS2[di][2]
              a == LENGTHS3[ti][1]
              b == LENGTHS3[ti][2]
              yy == IntOf(SliceFrom(date, Len(date) - 2))
              year == IF yy < 69 THEN 2000 + yy ELSE 1900 + yy
              month == IntOf(Slice(date, dl, dl + ml))
              day == IntOf(Slice(date, 0, dl))
              second == IntOf(SliceFrom(whole, a + b))
          IN  IF day > DaysInMonth(year, month) \/ second > 59
              THEN Raise("ValueError", "strptime")
              ELSE [tag |-> "datetime", year |-> year, month |-> month, day |-> day,
                    hour |-> IntOf(Slice(whole, 0, a)),
                    minute |-> IntOf(Slice(whole, a, a + b)),
                    second |-> second,
                    microsecond |-> IntOf(frac) * Pow10(6 - Len(frac))]

\* days from 1970-01-01 to the given civil date
LeapsBefore(y) == ((y - 1) \div 4) - ((y - 1) \div 100) + ((y - 1) \div 400)
RECURSIVE DaysBeforeMonth(_, _)
DaysBeforeMonth(y, m) ==
    IF m <= 1 THEN 0 ELSE DaysBeforeMonth(y, m - 1) + DaysInMonth(y, m - 1)
DaysFromEpoch(y, m, d) ==
    365 * (y - 1970) + (LeapsBefore(y) - LeapsBefore(1970)) + DaysBeforeMonth(y, m) + (d - 1)

\* naive datetime.timestamp(): the fields are read as local time of the host,
\* whose offset east of UTC is `offset` seconds. The POSIX timestamp is kept
\* as days, seconds of the day and microseconds (it exceeds 32 bits as a
\* number of seconds).
Timestamp(d, offset) ==
    LET s == d.hour * 3600 + d.minute * 60 + d.second - offset
        days == DaysFromEpoch(d.year, d.month, d.day)
    IN  [day |-> days + (s \div 86400), sec |-> s % 86400, micro |-> d.microsecond]

(***************************************************************************)
(* parse_gpsinfo_line (lines 42-59) and parse_gpsinfo (lines 30-39)        *)
(***************************************************************************)
GPSInfo(lat, lng, timestamp, alt, speed) ==
    [tag |-> "GPSInfo", lat |-> lat, lng |-> lng, timestamp |-> timestamp,
     alt |-> alt, speed |-> speed]
IsGPSInfo(r) == r.tag = "GPSInfo"

\* the first of the calls, in the order the code makes them, that raises
FirstRaise(rs) ==
    LET bad == {i \in DOMAIN rs : IsRaise(rs[i])}
    IN  rs[CHOOSE i \in bad : \A j \in bad : i <= j]

\* lines 44-59: the nine fields decoded
decode_fields(f, offset) ==
    LET lat == f[1]
        ns == f[2]
        lng == f[3]
        ew == f[4]
        date == f[5]
        utctime == f[6]
        alt == f[7]
        speed == f[8]
        latdeg == PyFloat(Slice(lat, 0, 2))
        latmin == PyFloat(SliceFrom(lat, 2))
        lngdeg == PyFloat(Slice(lng, 0, 3))
        lngmin == PyFloat(SliceFrom(lng, 3))
        naive == Strptime(date, utctime)
        altfloat == PyFloat(alt)
        speedfloat == PyFloat(speed)
        calls == <<latdeg, latmin, lngdeg, lngmin, naive, altfloat, speedfloat>>
    IN  IF \E i \in DOMAIN calls : IsRaise(calls[i]) THEN FirstRaise(calls)
        ELSE
          LET latfloat == AddSixtieth(latdeg, latmin)
              lngfloat == AddSixtieth(lngdeg, lngmin)
          IN  GPSInfo(IF BytesEqStr(ns, "S") THEN Neg(latfloat) ELSE latfloat,
                      IF BytesEqStr(ew, "W") THEN Neg(lngfloat) ELSE lngfloat,
                      Timestamp(naive, offset),
                      altfloat, speedfloat)

\* a parser that keeps the first nine fields and drops the rest
parse_gpsinfo_line_dropping(line, offset) ==
    LET f == Split(line, ",")
    IN  IF Len(f) < 9 THEN Raise("ValueError", "unpack")
        ELSE decode_fields(SubSeq(f, 1, 9), offset)

\* line 43: the tuple assignment takes exactly nine values
parse_gpsinfo_line(line, offset) ==
    LET f == Split(line, ",")
    IN  IF Len(f) # 9 THEN Raise("ValueError", "unpack")
        ELSE decode_fields(f, offset)

\* a framing check that forgets the last line
FramedWithoutStatus(lines) == lines # << >> /\ lines[1] = ECHO_INFO

\* a framing check that forgets the first line
FramedWithoutEcho(lines) == lines # << >> /\ lines[Len(lines)] = OK

\* lines 34-35: the framing check
Framed(lines) == lines # << >> /\ lines[1] = ECHO_INFO /\ lines[Len(lines)] = OK

\* the lines that start with b'+CGPSINFO: '
DataLineIndexes(lines) == {i \in DOMAIN lines : StartsWith(lines[i], PREFIX)}

parse_gpsinfo(gpsinfo, offset) ==
    LET lines == SplitLines(gpsinfo)
        found == DataLineIndexes(lines)
    IN  IF ~Framed(lines) THEN Raise("ValueError", "framing")
        ELSE IF found = {} THEN Raise("ValueError", "nodata")
        ELSE LET first == CHOOSE i \in found : \A j \in found : i <= j
             IN  parse_gpsinfo_line(SliceFrom(lines[first], Len(PREFIX)), offset)

(***************************************************************************)
(* Inputs: what the modem may put on the channel. A reply is assembled     *)
(* from an optional echo line, data lines and an optional status line.     *)
(***************************************************************************)
ERROR == <<"E","R","R","O","R">>
\* a complete fix, north and east
FIELDS_FIX ==
    <<<<"3","1","1","0",".","5">>, <<"N">>, <<"1","2","1","3","0",".","2","5">>, <<"E">>, <<"0","1","0","1","2","4">>, <<"2","3","5","9","5","9",".","5">>, <<"1","2",".","3">>, <<"0",".","5">>, <<"0">>>>
\* a complete fix, south and west
FIELDS_FIX_SW ==
    <<<<"3","1","1","0",".","5">>, <<"S">>, <<"1","2","1","3","0",".","2","5">>, <<"W">>, <<"0","1","0","1","2","4">>, <<"2","3","5","9","5","9",".","5">>, <<"1","2",".","3">>, <<"0",".","5">>, <<"0">>>>
\* the empty fix of the reply grammar: nine empty fields
FIELDS_EMPTY ==
    <<<< >>, << >>, << >>, << >>, << >>, << >>, << >>, << >>, << >>>>
\* eight fields: the course and its comma are missing
FIELDS_SHORT ==
    <<<<"3","1","1","0",".","5">>, <<"N">>, <<"1","2","1","3","0",".","2","5">>, <<"E">>, <<"0","1","0","1","2","4">>, <<"2","3","5","9","5","9",".","5">>, <<"1","2",".","3">>, <<"0",".","5">>>>
\* ten fields: one more than the grammar has
FIELDS_LONG ==
    <<<<"3","1","1","0",".","5">>, <<"N">>, <<"1","2","1","3","0",".","2","5">>, <<"E">>, <<"0","1","0","1","2","4">>, <<"2","3","5","9","5","9",".","5">>, <<"1","2",".","3">>, <<"0",".","5">>, <<"0">>, <<"7">>>>
\* nine fields, the latitude is not a number
FIELDS_BADLAT ==
    <<<<"N">>, <<"N">>, <<"1","2","1","3","0",".","2","5">>, <<"E">>, <<"0","1","0","1","2","4">>, <<"2","3","5","9","5","9",".","5">>, <<"1","2",".","3">>, <<"0",".","5">>, <<"0">>>>
\* nine fields, the date is the 31st of February
FIELDS_BADDATE ==
    <<<<"3","1","1","0",".","5">>, <<"N">>, <<"1","2","1","3","0",".","2","5">>, <<"E">>, <<"3","1","0","2","2","4">>, <<"2","3","5","9","5","9",".","5">>, <<"1","2",".","3">>, <<"0",".","5">>, <<"0">>>>
\* nine fields, only the first two filled
FIELDS_PARTIAL ==
    <<<<"3","1","1","0",".","5">>, <<"N">>, << >>, << >>, << >>, << >>, << >>, << >>, << >>>>
\* nine numeric fields in the layout, 99 degrees 60 minutes north and 199
\* degrees 99 minutes east
FIELDS_FAR ==
    <<<<"9","9","6","0",".","0">>, <<"N">>, <<"1","9","9","9","9",".","0">>, <<"E">>, <<"0","1","0","1","2","4">>, <<"2","3","5","9","5","9",".","5">>, <<"1","2",".","3">>, <<"0",".","5">>, <<"0">>>>

FIELD_ROWS == {FIELDS_FIX, FIELDS_FIX_SW, FIELDS_EMPTY, FIELDS_SHORT, FIELDS_LONG,
               FIELDS_BADLAT, FIELDS_BADDATE, FIELDS_PARTIAL, FIELDS_FAR}

\* b','.join(fields)
RECURSIVE Join(_)
Join(fields) ==
    IF Len(fields) = 1 THEN fields[1]
    ELSE fields[1] \o <<",">> \o Join(Tail(fields))

DataLine(fields) == PREFIX \o Join(fields)
DATA_LINES == {DataLine(f) : f \in FIELD_ROWS}

\* offsets east of UTC, in seconds, of the hosts considered
HOST_OFFSETS == {0, 7200, 0 - 18000}

\* the replies of the modem, each a sequence of chunks that arrive one by one
Line(text) == IF text = << >> THEN << >> ELSE text \o CRLF
Chunks(parts) == SelectSeq(parts, LAMBDA c : c # << >>)
START_REPLIES == {<< >>,
                  <<Line(GPS_STANDALONE), Line(OK)>>,
                  <<Line(GPS_STANDALONE), Line(ERROR)>>}
STOP_REPLIES == {<< >>, <<Line(GPS_STOP) \o Line(OK)>>}
POLL_REPLIES ==
    {Chunks(<<Line(h), Line(d), Line(t)>>) :
        h \in {<< >>, ECHO_INFO}, d \in DATA_LINES \cup {<< >>}, t \in {<< >>, OK}}

(***************************************************************************)
(* State                                                                   *)
(***************************************************************************)
VARIABLES
    call,       \* the send_at_complex call get_gps_position is in: "start", "poll", "stop"
    pc,         \* the position in that call, or "loop" (line 93) or "done"
    written,    \* what comm.write was given, in order
    wire,       \* chunks the modem has sent that have not reached the host
    rxbuf,      \* the input buffer of the port: chunks waiting to be read
    rec_null,   \* the loop flag of get_gps_position
    started,    \* what the start call returned (line 91 throws it away)
    polled,     \* what the last poll returned: status and serial_answer
    ret,        \* how get_gps_position ended: the value returned or the exception
    utcoffset,  \* the offset of the host's local time zone
    gpsinfo,    \* the argument of a direct call of parse_gpsinfo
    parsed,     \* what that call returned or raised
    default,    \* the argument of find_tty_gps
    world,      \* how each serial device of the host behaves when it is probed
    ports,      \* what serial.tools.list_ports.comports() returned (line 112)
    fpc,        \* the position in find_tty_gps: "default", "comports", "loop", "done"
    tried,      \* how many ports the loop of line 113 has gone through
    probes,     \* the calls of is_tty_gps made, in order, with what each returned
    found       \* how find_tty_gps ended

\* the state of find_tty_gps
findVars == <<default, world, ports, fpc, tried, probes, found>>

vars == <<call, pc, written, wire, rxbuf, rec_null, started, polled, ret,
          utcoffset, gpsinfo, parsed, findVars>>

Unbound == [tag |-> "Unbound"]
Running == [tag |-> "Running"]
Tuple(status, serial_answer) ==
    [tag |-> "tuple", status |-> status, serial_answer |-> serial_answer]

Command(c) ==
    CASE c = "start" -> GPS_STANDALONE
      [] c = "poll" -> GPS_INFO
      [] c = "stop" -> GPS_STOP

\* the `back` argument of each call (lines 91, 94, 104)
Back(c) ==
    CASE c = "start" -> OK
      [] c = "poll" -> PREFIX
      [] c = "stop" -> OK

Replies(c) ==
    CASE c = "start" -> START_REPLIES
      [] c = "poll" -> POLL_REPLIES
      [] c = "stop" -> STOP_REPLIES

\* the values of the state of find_tty_gps while it is not in use
FindNotCalled ==
    /\ default = ""
    /\ world = << >>
    /\ ports = << >>
    /\ fpc = "default"
    /\ tried = 0
    /\ probes = << >>
    /\ found = Running

Tagged(c, reply) == [i \in DOMAIN reply |-> [cmd |-> c, data |-> reply[i]]]
Data(chunks) == Flatten([i \in DOMAIN chunks |-> chunks[i].data])

\* comm.inWaiting()
InWaiting == Len(Data(rxbuf))

Init ==
    /\ call = "start"
    /\ pc = "write"
    /\ written = << >>
    /\ wire = << >>
    /\ rxbuf = << >>
    /\ rec_null = TRUE
    /\ started = Unbound
    /\ polled = Unbound
    /\ ret = Running
    /\ utcoffset \in HOST_OFFSETS
    /\ gpsinfo = << >>
    /\ parsed = Running
    /\ FindNotCalled

(***************************************************************************)
(* get_gps_position (lines 88-106): what it does with the value a call of  *)
(* send_at_complex returned.                                               *)
(***************************************************************************)
\* line 96
EmptyFix(serial_answer) == Contains(SIX_COMMAS, serial_answer)

\* line 91: the result is not looked at; line 92 sleeps; line 93 follows
AfterStart(res) ==
    /\ started' = res
    /\ pc' = "loop"
    /\ UNCHANGED <<call, rec_null, polled, ret>>

\* an empty fix that leaves the flag as it was, so that the loop polls again
PollNotReadyPollingOn ==
    /\ pc' = "loop"
    /\ UNCHANGED <<call, rec_null, ret>>

\* an empty fix answered with the stop command
PollNotReadyStopping ==
    /\ rec_null' = FALSE
    /\ call' = "stop"
    /\ pc' = "write"
    /\ ret' = ret

\* lines 97-99: the flag that ends the loop
PollNotReady ==
    /\ rec_null' = FALSE
    /\ pc' = "loop"
    /\ UNCHANGED <<call, ret>>

\* a failure branch that returns without the stop command
PollFailureWithoutStop ==
    /\ ret' = None
    /\ pc' = "done"
    /\ UNCHANGED <<call, rec_null>>

\* lines 103-104: the stop command comes next
PollFailure ==
    /\ call' = "stop"
    /\ pc' = "write"
    /\ UNCHANGED <<rec_null, ret>>

\* lines 94-105
AfterPoll(res) ==
    /\ polled' = res
    /\ IF res = None
       THEN \* unpacking None into status, serial_answer
            /\ ret' = Raise("TypeError", "unpack")
            /\ pc' = "done"
            /\ UNCHANGED <<call, rec_null>>
       ELSE IF res.status # 0
       THEN IF EmptyFix(res.serial_answer)
            THEN PollNotReady
            ELSE /\ ret' = parse_gpsinfo(res.serial_answer, utcoffset)
                 /\ pc' = "done"
                 /\ UNCHANGED <<call, rec_null>>
       ELSE PollFailure
    /\ UNCHANGED started

\* lines 104-105: the result of the stop is not looked at
AfterStop(res) ==
    /\ ret' = None
    /\ pc' = "done"
    /\ UNCHANGED <<call, rec_null, started, polled>>

AfterCall(res) ==
    CASE call = "start" -> AfterStart(res)
      [] call = "poll" -> AfterPoll(res)
      [] call = "stop" -> AfterStop(res)

\* a loop exit that sends the stop command before it returns
LoopExitStopping ==
    /\ call' = "stop"
    /\ pc' = "write"
    /\ ret' = ret

\* the end of the function body after the loop: None is returned
LoopExit ==
    /\ ret' = None
    /\ pc' = "done"
    /\ call' = call

\* line 93, reached from line 92 and from line 106
LoopTest ==
    /\ pc = "loop"
    /\ IF rec_null
       THEN /\ call' = "poll"
            /\ pc' = "write"
            /\ ret' = ret
       ELSE LoopExit
    /\ UNCHANGED <<written, wire, rxbuf, rec_null, started, polled,
                   utcoffset, gpsinfo, parsed>>
    /\ UNCHANGED findVars

(***************************************************************************)
(* send_at_complex (lines 68-85)                                           *)
(***************************************************************************)
\* line 70: the command goes out; the modem answers with one of its replies
Write ==
    /\ pc = "write"
    /\ \E reply \in Replies(call) :
          /\ written' = Append(written, Command(call) \o CRLF)
          /\ wire' = wire \o Tagged(call, reply)
    /\ pc' = "settle"
    /\ UNCHANGED <<call, rxbuf, rec_null, started, polled, ret,
                   utcoffset, gpsinfo, parsed>>
    /\ UNCHANGED findVars

\* bytes reach the port while the host sleeps (lines 71, 73, 92, 99, 106)
Deliver ==
    /\ wire # << >>
    /\ pc # "done"
    /\ rxbuf' = Append(rxbuf, Head(wire))
    /\ wire' = Tail(wire)
    /\ UNCHANGED <<call, pc, written, rec_null, started, polled, ret,
                   utcoffset, gpsinfo, parsed>>
    /\ UNCHANGED findVars

\* the port is not opened for exclusive use (line 133): another reader of the
\* device takes the bytes that are waiting
Drain ==
    /\ rxbuf # << >>
    /\ pc # "done"
    /\ rxbuf' = << >>
    /\ UNCHANGED <<call, pc, written, wire, rec_null, started, polled, ret,
                   utcoffset, gpsinfo, parsed>>
    /\ UNCHANGED findVars

\* lines 71-72 and 82-85
Settle ==
    /\ pc = "settle"
    /\ IF InWaiting # 0
       THEN /\ pc' = "grace"
            /\ UNCHANGED <<call, rec_null, started, polled, ret>>
       ELSE AfterCall(Tuple(0, << >>))
    /\ UNCHANGED <<written, wire, rxbuf, utcoffset, gpsinfo, parsed>>
    /\ UNCHANGED findVars

\* lines 74-81: the value returned for the bytes read
Classify(back, serial_answer) ==
    IF serial_answer = << >> THEN None
    ELSE IF ~Contains(back, serial_answer) THEN Tuple(0, serial_answer)
    ELSE Tuple(1, serial_answer)

\* lines 73-81
Read ==
    /\ pc = "grace"
    /\ rxbuf' = << >>
    /\ AfterCall(Classify(Back(call), Data(rxbuf)))
    /\ UNCHANGED <<written, wire, utcoffset, gpsinfo, parsed>>
    /\ UNCHANGED findVars

Next == Write \/ Deliver \/ Drain \/ Settle \/ Read \/ LoopTest

Spec == Init /\ [][Next]_vars

(***************************************************************************)
(* parse_gpsinfo called on its own, on every transcript assembled from a   *)
(* head, up to MaxDataLines data lines and a tail.                         *)
(***************************************************************************)
MaxDataLines == 2

HEADS == {<< >>, <<ECHO_INFO>>, <<ECHO_INFO, << >> >>, <<GPS_STANDALONE, OK, ECHO_INFO>>}
TAILS == {<< >>, <<OK>>, <<ERROR>>, << << >>, OK>>}
DATA_SEQS == UNION {[1..n -> DATA_LINES] : n \in 0..MaxDataLines}
Transcript(lines) == Flatten([i \in DOMAIN lines |-> lines[i] \o CRLF])
TRANSCRIPTS == {Transcript(h \o d \o t) : h \in HEADS, d \in DATA_SEQS, t \in TAILS}

ParseInit ==
    /\ call = "start"
    /\ pc = "write"
    /\ written = << >>
    /\ wire = << >>
    /\ rxbuf = << >>
    /\ rec_null = TRUE
    /\ started = Unbound
    /\ polled = Unbound
    /\ ret = Running
    /\ utcoffset \in HOST_OFFSETS
    /\ gpsinfo \in TRANSCRIPTS
    /\ parsed = Running
    /\ FindNotCalled

ParseCall ==
    /\ parsed = Running
    /\ parsed' = parse_gpsinfo(gpsinfo, utcoffset)
    /\ UNCHANGED <<call, pc, written, wire, rxbuf, rec_null, started, polled, ret,
                   utcoffset, gpsinfo>>
    /\ UNCHANGED findVars

ParseNext == ParseCall

ParseSpec == ParseInit /\ [][ParseNext]_vars

(***************************************************************************)
(* Discovery: send_cmd (lines 62-65), is_tty_gps (lines 119-128) and       *)
(* find_tty_gps (lines 109-116).                                           *)
(***************************************************************************)
GPS_STATUS == <<"A","T","+","C","G","P","S","?">>
DEFAULT_TTY_GPS == "/dev/ttyUSB2"

Bool(v) == [tag |-> "bool", val |-> v]
Bytes(v) == [tag |-> "bytes", val |-> v]

\* What a device does when it is probed: whether serial.Serial(tty, ...) opens
\* it, whether a call on the open port raises, and the bytes that are in the
\* input buffer 0.01 s after the query was written.
Behaviour(opens, raises, response) ==
    [opens |-> opens, raises |-> raises, response |-> response]

RESPONSES ==
    {<< >>,
     GPS_STATUS \o <<"\r">> \o CRLF \o <<"+","C","G","P","S",":"," ","0",",","1">> \o CRLF \o CRLF \o OK \o CRLF,
     GPS_STATUS \o CRLF \o ERROR \o CRLF,
     OK \o CRLF \o ERROR \o CRLF,
     OK \o CRLF \o CRLF,
     CRLF,
     OK}

BEHAVIOURS ==
    {Behaviour(FALSE, FALSE, << >>), Behaviour(TRUE, TRUE, << >>)}
        \cup {Behaviour(TRUE, FALSE, r) : r \in RESPONSES}

\* lines 62-65: comm.write, time.sleep, comm.read(comm.inWaiting())
send_cmd(comm, command) ==
    IF comm.raises THEN Raise("SerialException", "port")
    ELSE Bytes(comm.response)

\* an answer that looks at the last line of an empty response
is_tty_gps_unguarded(tty) ==
    LET opened == IF tty.opens THEN send_cmd(tty, GPS_STATUS)
                  ELSE Raise("SerialException", "open")
    IN  IF IsRaise(opened) THEN Bool(FALSE)
        ELSE IF SplitLines(opened.val) = << >> THEN Raise("IndexError", "splitlines")
        ELSE Bool(Last(SplitLines(opened.val)) = OK)

\* lines 119-128; tty is the behaviour of the device of that name
is_tty_gps(tty) ==
    LET \* lines 122-124: open, flushInput, send_cmd
        response == IF tty.opens THEN send_cmd(tty, GPS_STATUS)
                    ELSE Raise("SerialException", "open")
    IN  \* lines 126-127: except Exception
        IF IsRaise(response) THEN Bool(FALSE)
        \* line 128: bool(response) and response.splitlines()[-1] == b'OK'
        ELSE IF response.val = << >> THEN Bool(FALSE)
        ELSE Bool(Last(SplitLines(response.val)) = OK)

\* the serial devices of the host
DEVICES == {"/dev/ttyUSB0", "/dev/ttyUSB1", DEFAULT_TTY_GPS}
MaxPorts == 2
PORT_LISTS ==
    {p \in UNION {[1..n -> DEVICES] : n \in 0..MaxPorts} :
        \A i, j \in DOMAIN p : i # j => p[i] # p[j]}

Str(v) == [tag |-> "str", val |-> v]
Probe(tty, answer) == [tty |-> tty, answer |-> answer]

FindInit ==
    /\ call = "start"
    /\ pc = "write"
    /\ written = << >>
    /\ wire = << >>
    /\ rxbuf = << >>
    /\ rec_null = TRUE
    /\ started = Unbound
    /\ polled = Unbound
    /\ ret = Running
    /\ utcoffset = 0
    /\ gpsinfo = << >>
    /\ parsed = Running
    \* the default argument is DEFAULT_TTY_GPS, another device, or None
    /\ default \in DEVICES \cup {""}
    /\ world \in [DEVICES -> BEHAVIOURS]
    /\ ports = << >>
    /\ fpc = "default"
    /\ tried = 0
    /\ probes = << >>
    /\ found = Running

sessionVars == <<call, pc, written, wire, rxbuf, rec_null, started, polled, ret,
                 utcoffset, gpsinfo, parsed>>

\* lines 110-111
ProbeDefault ==
    /\ fpc = "default"
    /\ IF default = ""
       THEN /\ fpc' = "comports"
            /\ UNCHANGED <<probes, found>>
       ELSE LET answer == is_tty_gps(world[default])
            IN  /\ probes' = Append(probes, Probe(default, answer))
                /\ IF IsRaise(answer) THEN found' = answer /\ fpc' = "done"
                   ELSE IF answer.val THEN found' = Str(default) /\ fpc' = "done"
                   ELSE found' = found /\ fpc' = "comports"
    /\ UNCHANGED <<default, world, ports, tried, sessionVars>>

\* line 112
Comports ==
    /\ fpc = "comports"
    /\ ports' \in PORT_LISTS
    /\ fpc' = "loop"
    /\ UNCHANGED <<default, world, tried, probes, found, sessionVars>>

\* a loop that probes every port, the default one too
LoopStepProbingAll ==
    /\ fpc = "loop"
    /\ IF tried = Len(ports)
       THEN /\ found' = None
            /\ fpc' = "done"
            /\ UNCHANGED <<tried, probes>>
       ELSE LET device == ports[Len(ports) - tried]
                answer == is_tty_gps(world[device])
            IN  /\ probes' = Append(probes, Probe(device, answer))
                /\ IF IsRaise(answer)
                   THEN found' = answer /\ fpc' = "done" /\ tried' = tried
                   ELSE IF answer.val
                   THEN found' = Str(device) /\ fpc' = "done" /\ tried' = tried
                   ELSE found' = found /\ fpc' = fpc /\ tried' = tried + 1
    /\ UNCHANGED <<default, world, ports, sessionVars>>

\* lines 113-116: one turn of the loop over reversed(ports), or its end
LoopStep ==
    /\ fpc = "loop"
    /\ IF tried = Len(ports)
       THEN /\ found' = None
            /\ fpc' = "done"
            /\ UNCHANGED <<tried, probes>>
       ELSE LET device == ports[Len(ports) - tried]
            IN  IF device = default
                THEN /\ tried' = tried + 1
                     /\ UNCHANGED <<probes, found, fpc>>
                ELSE LET answer == is_tty_gps(world[device])
                     IN  /\ probes' = Append(probes, Probe(device, answer))
                         /\ IF IsRaise(answer)
                            THEN found' = answer /\ fpc' = "done" /\ tried' = tried
                            ELSE IF answer.val
                            THEN found' = Str(device) /\ fpc' = "done" /\ tried' = tried
                            ELSE found' = found /\ fpc' = fpc /\ tried' = tried + 1
    /\ UNCHANGED <<default, world, ports, sessionVars>>

FindNext == ProbeDefault \/ Comports \/ LoopStep

FindSpec == FindInit /\ [][FindNext]_vars

(***************************************************************************)
(* What the claims speak of                                                *)
(***************************************************************************)
Wrote(c) == Command(c) \o CRLF
\* how many times the command was written to the channel
Occurrences(c) == Cardinality({i \in DOMAIN written : written[i] = Wrote(c)})

\* the transport outcomes of the specification, read off a returned value
OutcomeOk(res) == res.tag = "tuple" /\ res.status = 1
OutcomeNoResponse(res) == res.tag = "tuple" /\ res.status = 0 /\ res.serial_answer = << >>
OutcomeUnexpected(res) == res.tag = "tuple" /\ res.status = 0 /\ res.serial_answer # << >>
PollFailed == OutcomeNoResponse(polled) \/ OutcomeUnexpected(polled)

\* the session outcomes: a fix returned, the loop left on an empty fix, the
\* return that follows the stop command
EndedFix == pc = "done" /\ IsGPSInfo(ret)
EndedNotReady == pc = "done" /\ ret = None /\ ~rec_null
EndedFailure == pc = "done" /\ ret = None /\ PollFailed

\* the lines of the argument of parse_gpsinfo that carry the data prefix
ArgLines == SplitLines(gpsinfo)
ArgDataLines == SelectSeq(ArgLines, LAMBDA l : StartsWith(l, PREFIX))
ArgFramed == ArgLines # << >> /\ Head(ArgLines) = ECHO_INFO /\ Last(ArgLines) = OK
\* the number of comma-separated fields after the prefix
FieldCount(l) == Cardinality({i \in DOMAIN l : i > Len(PREFIX) /\ l[i] = ","}) + 1

\* how far get_gps_position has come, and what is left to happen: every step
\* of the session, every arrival of a chunk and every loss of waiting bytes
\* lowers Remaining
Position ==
    CASE pc = "done" -> 10
      [] pc = "loop" -> (IF rec_null THEN 3 ELSE 9)
      [] call = "start" -> (IF pc = "write" THEN 0 ELSE IF pc = "settle" THEN 1 ELSE 2)
      [] call = "poll" -> (IF pc = "write" THEN 4 ELSE IF pc = "settle" THEN 5 ELSE 6)
      [] call = "stop" -> (IF pc = "write" THEN 7 ELSE IF pc = "settle" THEN 8 ELSE 9)
Remaining == 8 * (10 - Position) + 2 * Len(wire) + Len(rxbuf)

\* Termination: a session that has not ended is at a position one of Write,
\* Settle, Read and LoopTest acts on, and every step brings the end nearer, so
\* the session ends after finitely many steps.
SessionCanStep ==
    /\ pc \in {"write", "settle", "grace", "loop", "done"}
    /\ call \in {"start", "poll", "stop"}
StepsTowardsEnd == [][Remaining' < Remaining]_vars

(***************************************************************************)
(* C1: a session ends as a Fix, as NotReady or as a Failure and in no      *)
(* other way; no exception leaves get_gps_position.                        *)
(* The code lets the ValueError of parse_gpsinfo escape.                   *)
(***************************************************************************)
C1_ThreeOutcomes == pc = "done" => (EndedFix \/ EndedNotReady \/ EndedFailure)

(***************************************************************************)
(* C2: when the start command's outcome is not Ok, the session ends Failed *)
(* and never writes AT+CGPSINFO.                                           *)
(* The code never looks at the outcome of the start command.               *)
(***************************************************************************)
C2_StartRequired ==
    (started # Unbound /\ ~OutcomeOk(started)) =>
        /\ Occurrences("poll") = 0
        /\ pc = "done" => ret = None

(***************************************************************************)
(* C3: after a poll whose outcome is Unexpected or NoResponse the session  *)
(* writes AT+CGPS=0 next and ends Failed; it writes no further             *)
(* AT+CGPSINFO, so that a session whose first probe fails has written      *)
(* exactly one probe.                                                      *)
(***************************************************************************)
C3_FailedPollStops ==
    PollFailed =>
        /\ Occurrences("poll") = 1
        /\ \/ /\ written = <<Wrote("start"), Wrote("poll")>>
              /\ call = "stop" /\ pc = "write" /\ ret = Running
           \/ /\ written = <<Wrote("start"), Wrote("poll"), Wrote("stop")>>
              /\ call = "stop" /\ pc \in {"settle", "grace"} /\ ret = Running
           \/ /\ written = <<Wrote("start"), Wrote("poll"), Wrote("stop")>>
              /\ EndedFailure

C3_Witness ==
    /\ OutcomeNoResponse(polled)
    /\ EndedFailure
    /\ written = <<Wrote("start"), Wrote("poll"), Wrote("stop")>>

(***************************************************************************)
(* C4, as claimed: every session that ends has written AT+CGPS=0 after its *)
(* last query, whatever its outcome.                                       *)
(***************************************************************************)
C4_AlwaysStopped == pc = "done" => Last(written) = Wrote("stop")

(***************************************************************************)
(* C4, amended: a session that ends has written AT+CGPS=0, as its last     *)
(* write, exactly when its poll had outcome Unexpected or NoResponse; a    *)
(* session that ends with a Fix, as NotReady or with a parse error has not *)
(* written the stop command at all.                                        *)
(***************************************************************************)
C4_StoppedOnlyOnFailure ==
    pc = "done" =>
        /\ PollFailed => Last(written) = Wrote("stop")
        /\ ~PollFailed => Occurrences("stop") = 0

C4_Witness == EndedFix /\ Occurrences("poll") = 1 /\ Occurrences("stop") = 0

(***************************************************************************)
(* C5, as claimed: a session that left the loop on an empty fix has        *)
(* polled again after the first empty fix, so it has written at least two  *)
(* queries.                                                                *)
(***************************************************************************)
C5_PolledTwice == EndedNotReady => Occurrences("poll") >= 2

(***************************************************************************)
(* C5, amended: an empty-fix poll ends the polling. Once a poll has        *)
(* outcome Ok with the empty data line +CGPSINFO: ,,,,,,,, the flag        *)
(* rec_null is false, the session writes no further query and no stop      *)
(* command, and it ends NotReady after that single observation.            *)
(***************************************************************************)
C5_EmptyFixEndsPolling ==
    (OutcomeOk(polled) /\ Contains(DataLine(FIELDS_EMPTY), polled.serial_answer)) =>
        /\ ~rec_null
        /\ written = <<Wrote("start"), Wrote("poll")>>
        /\ \/ pc = "loop" /\ ret = Running
           \/ EndedNotReady

C5_Witness ==
    /\ EndedNotReady
    /\ Contains(DataLine(FIELDS_EMPTY), polled.serial_answer)
    /\ Occurrences("poll") = 1

(***************************************************************************)
(* C6: the value handed to the caller by a session that ended NotReady     *)
(* differs from the value of a session that ended in Failure. Every        *)
(* Failure hands back None (line 105), so a NotReady session must hand     *)
(* back something else.                                                    *)
(* The code hands back None for both.                                      *)
(***************************************************************************)
C6_NotReadyTagged == (pc = "done" /\ ~rec_null) => ret # None

(***************************************************************************)
(* C7: parse_gpsinfo on a framed transcript whose data line is             *)
(* +CGPSINFO: ,,,,,,,, does not fail with an error.                        *)
(* The code raises the ValueError of float(b'').                           *)
(***************************************************************************)
C7_EmptyIsNoError ==
    (parsed # Running /\ ArgFramed /\ ArgDataLines = <<DataLine(FIELDS_EMPTY)>>) =>
        ~IsRaise(parsed)

(***************************************************************************)
(* C8: parse_gpsinfo of a transcript (the empty one too) whose first line  *)
(* is not AT+CGPSINFO or whose last line is not OK raises the framing      *)
(* error, whatever its data lines are, and returns no Fix.                 *)
(***************************************************************************)
C8_FramingFirst ==
    (parsed # Running /\ ~ArgFramed) => parsed = Raise("ValueError", "framing")

\* a transcript with the echo and a complete fix and without the final OK
C8_Witness ==
    /\ parsed = Raise("ValueError", "framing")
    /\ ArgLines # << >>
    /\ Head(ArgLines) = ECHO_INFO
    /\ Last(ArgLines) # OK
    /\ ArgDataLines = <<DataLine(FIELDS_FIX)>>

(***************************************************************************)
(* C9: parse_gpsinfo returns a Fix only for a transcript with exactly one  *)
(* line that begins with +CGPSINFO: ; a transcript with two or more is not *)
(* accepted.                                                               *)
(* The code decodes the first such line and never counts them.             *)
(***************************************************************************)
C9_ExactlyOneDataLine == IsGPSInfo(parsed) => Len(ArgDataLines) = 1

(***************************************************************************)
(* C10: a data line whose text after the prefix has fewer or more than     *)
(* nine comma-separated fields makes the parse fail: no Fix is returned    *)
(* for it, the error is the one of the nine-value assignment.              *)
(***************************************************************************)
C10_NineFields ==
    (parsed # Running /\ ArgFramed /\ ArgDataLines # << >>
        /\ FieldCount(Head(ArgDataLines)) # 9) =>
            parsed = Raise("ValueError", "unpack")

\* ten fields, the first nine of them a complete fix
C10_Witness ==
    /\ parsed = Raise("ValueError", "unpack")
    /\ ArgFramed
    /\ ArgDataLines = <<DataLine(FIELDS_LONG)>>

\* the fields of the first data line of the argument of parse_gpsinfo
ArgFields == Split(SliceFrom(Head(ArgDataLines), Len(PREFIX)), ",")
\* degrees + minutes / 60 of a field with `width` degree digits
DegreesMinutes(text, width) ==
    AddSixtieth(PyFloat(Slice(text, 0, width)), PyFloat(SliceFrom(text, width)))

(***************************************************************************)
(* C11: the latitude of the Fix is degrees + minutes/60, negated when the  *)
(* N/S field is S and not negated when it is N; the longitude is negated   *)
(* when the E/W field is W and not when it is E.                           *)
(* The code compares the bytes fields with the str 'S' and 'W', which are  *)
(* never equal, so nothing is ever negated.                                *)
(***************************************************************************)
C11_HemisphereSign ==
    IsGPSInfo(parsed) =>
        /\ ArgFields[2] = <<"S">> => parsed.lat = Neg(DegreesMinutes(ArgFields[1], 2))
        /\ ArgFields[2] = <<"N">> => parsed.lat = DegreesMinutes(ArgFields[1], 2)
        /\ ArgFields[4] = <<"W">> => parsed.lng = Neg(DegreesMinutes(ArgFields[3], 3))
        /\ ArgFields[4] = <<"E">> => parsed.lng = DegreesMinutes(ArgFields[3], 3)

(***************************************************************************)
(* C12: every Fix parse_gpsinfo returns has its latitude in [-90, 90] and  *)
(* its longitude in [-180, 180]; a field out of range fails.               *)
(* The code checks no range: 9960.0 decodes to 100 degrees.                *)
(***************************************************************************)
C12_InRange ==
    IsGPSInfo(parsed) =>
        /\ parsed.lat.num <= 90 * parsed.lat.den
        /\ parsed.lat.num >= (0 - 90) * parsed.lat.den
        /\ parsed.lng.num <= 180 * parsed.lng.den
        /\ parsed.lng.num >= (0 - 180) * parsed.lng.den

(***************************************************************************)
(* C13: the timestamp of the Fix is the instant of the date and time       *)
(* fields read as UTC, whatever the offset of the host's time zone.        *)
(* The code calls timestamp() on a naive datetime, which reads the fields  *)
(* as local time of the host.                                              *)
(***************************************************************************)
C13_TimestampIsUTC ==
    IsGPSInfo(parsed) =>
        parsed.timestamp = Timestamp(Strptime(ArgFields[5], ArgFields[6]), 0)

\* the sequence in the opposite order
Reversed(q) == [i \in 1..Len(q) |-> q[Len(q) + 1 - i]]
\* the order in which discovery is to try the devices
ProbeOrder ==
    (IF default = "" THEN << >> ELSE <<default>>)
        \o SelectSeq(Reversed(ports), LAMBDA d : d # default)
Rejected(i) == probes[i].answer = Bool(FALSE)
Accepted(i) == probes[i].answer = Bool(TRUE)

(***************************************************************************)
(* C14: find_tty_gps probes the preferred device first and then the        *)
(* enumerated candidates from the last enumerated to the first, leaving    *)
(* out the preferred device; it probes no device twice, stops at the first *)
(* accepted device and returns it, and returns None exactly when every     *)
(* device of that order was probed and rejected.                           *)
(***************************************************************************)
C14_FirstAccepted ==
    /\ Len(probes) <= Len(ProbeOrder) \/ fpc \in {"default", "comports"}
    /\ fpc \in {"loop", "done"} =>
           \A i \in DOMAIN probes : probes[i].tty = ProbeOrder[i]
    /\ \A i \in DOMAIN probes : i < Len(probes) => Rejected(i)
    /\ fpc # "done" => found = Running /\ \A i \in DOMAIN probes : Rejected(i)
    /\ fpc = "done" =>
           /\ found = None <=>
                  /\ Len(probes) = Len(ProbeOrder)
                  /\ \A i \in DOMAIN probes : Rejected(i)
           /\ found # None =>
                  /\ probes # << >>
                  /\ Accepted(Len(probes))
                  /\ found = Str(probes[Len(probes)].tty)

\* the preferred device is rejected, is enumerated last, is passed over, and
\* the candidate enumerated before it is accepted
C14_Witness ==
    /\ fpc = "done"
    /\ default # ""
    /\ Len(ports) = 2
    /\ ports[2] = default
    /\ found = Str(ports[1])
    /\ Len(probes) = 2

\* line 128 in the words of the claim, for the behaviour of a device
Accepts(b) ==
    /\ b.opens
    /\ ~b.raises
    /\ b.response # << >>
    /\ Last(SplitLines(b.response)) = OK

(***************************************************************************)
(* C17: every probe answers True exactly when the channel opened, the      *)
(* status query got a non-empty response and the last line of the response *)
(* is exactly OK; otherwise it answers False, raises nothing, and          *)
(* discovery goes on to the next candidate without a result.               *)
(***************************************************************************)
C17_ProbeAnswer ==
    [][probes' # probes =>
           LET probe == Last(probes')
           IN  /\ probes' = Append(probes, probe)
               /\ probe.answer = Bool(Accepts(world[probe.tty]))
               /\ ~Accepts(world[probe.tty]) =>
                      /\ found' = Running
                      /\ fpc' \in {"comports", "loop"}]_vars

\* a device that does not open and one whose status reply has OK before the
\* last line are passed over, and a later candidate is accepted
C17_Witness ==
    /\ Len(probes) = 3
    /\ ~world[probes[1].tty].opens
    /\ Contains(OK, world[probes[2].tty].response)
    /\ Rejected(2)
    /\ Accepted(3)

(***************************************************************************)
(* C15: one call of send_at_complex writes the command and CRLF once, and  *)
(* returns a classified outcome with the transcript: NoResponse, reading   *)
(* nothing, when no bytes wait after the settle wait; otherwise what it    *)
(* read, as Ok exactly when that contains the marker and as Unexpected     *)
(* when it does not. It returns nothing else.                              *)
(* The code returns None when bytes waited after the settle wait and the   *)
(* read of line 74 gets none.                                              *)
(***************************************************************************)
C15_ClassifiedOutcome ==
    [][LET res == IF call = "start" THEN started' ELSE polled'
           returns == pc \in {"settle", "grace"} /\ pc' \notin {"settle", "grace"}
       IN  /\ written' # written => pc = "write"
           /\ (pc = "write" /\ pc' # pc) =>
                  /\ written' = Append(written, Wrote(call))
                  /\ pc' = "settle"
           /\ (returns /\ call # "stop") =>
                  /\ res.tag = "tuple"
                  /\ IF pc = "settle"
                     THEN /\ InWaiting = 0
                          /\ res = Tuple(0, << >>)
                          /\ rxbuf' = rxbuf
                     ELSE /\ res.serial_answer = Data(rxbuf)
                          /\ res.status = (IF Contains(Back(call), Data(rxbuf))
                                           THEN 1 ELSE 0)]_vars

(***************************************************************************)
(* C16: once a poll has returned Ok with an empty fix, the only thing the  *)
(* session may write is a further AT+CGPSINFO query: the write log holds   *)
(* the one start command and no stop command, and no Fix is returned.      *)
(***************************************************************************)
C16_EmptyFixOnlyQueries ==
    [][(OutcomeOk(polled') /\ EmptyFix(polled'.serial_answer)) =>
           /\ written' = written \/ written' = Append(written, Wrote("poll"))
           /\ Occurrences("stop")' = 0
           /\ Occurrences("start")' = 1
           /\ ret' \in {Running, None}]_vars

\* the session has ended after an empty fix, with the start command and one
\* query written
C16_Witness ==
    /\ pc = "done"
    /\ OutcomeOk(polled)
    /\ EmptyFix(polled.serial_answer)
    /\ written = <<Wrote("start"), Wrote("poll")>>
    /\ ret = None

\* the step in which a poll reads its transcript (line 74 of the call of line 94)
PollReads == pc = "grace" /\ call = "poll" /\ pc' # pc
\* the commands whose replies the bytes waiting at the port belong to
Heard == {rxbuf[i].cmd : i \in DOMAIN rxbuf}

(***************************************************************************)
(* C18, as claimed: the transcript a poll hands to parse_gpsinfo is made   *)
(* of bytes of the reply to that AT+CGPSINFO only; bytes of the reply to   *)
(* AT+CGPS=1,1 that arrived after the window of the start command are not  *)
(* in it.                                                                  *)
(***************************************************************************)
C18_TranscriptIsolated ==
    [][(PollReads /\ OutcomeOk(polled') /\ ~EmptyFix(polled'.serial_answer)) =>
           Heard \subseteq {"poll"}]_vars

(***************************************************************************)
(* C18, amended: the transcript of a poll is every byte waiting at the     *)
(* port when the poll reads: bytes of the reply to AT+CGPS=1,1 that        *)
(* arrived after the window of the start command, followed by the bytes of *)
(* the reply to AT+CGPSINFO that arrived within the poll's window. A       *)
(* transcript with bytes of the start reply in it is classified like any   *)
(* other, and when it is handed to parse_gpsinfo the framing check fails:  *)
(* no Fix comes of it.                                                     *)
(***************************************************************************)
C18_StaleBytesNoFix ==
    [][PollReads =>
           /\ Heard \subseteq {"start", "poll"}
           /\ \A i, j \in DOMAIN rxbuf :
                  (rxbuf[i].cmd = "poll" /\ rxbuf[j].cmd = "start") => j < i
           /\ polled' = Classify(PREFIX, Data(rxbuf))
           /\ ("start" \in Heard /\ OutcomeOk(polled')
                  /\ ~EmptyFix(polled'.serial_answer)) =>
                  ret' = Raise("ValueError", "framing")]_vars

\* the OK of the start reply came late and stands before the echo of a
\* complete fix reply; the parser was given all of it and raised
C18_Witness ==
    /\ pc = "done"
    /\ OutcomeOk(polled)
    /\ StartsWith(polled.serial_answer,
                  Line(OK) \o Line(ECHO_INFO) \o Line(DataLine(FIELDS_FIX)) \o Line(OK))
    /\ ret = Raise("ValueError", "framing")

\* the data lines of the transcript of the poll
PolledDataLines ==
    SelectSeq(SplitLines(polled.serial_answer), LAMBDA l : StartsWith(l, PREFIX))
\* its data line is the empty fix of the reply grammar, +CGPSINFO: ,,,,,,,,
PolledAllEmpty ==
    PolledDataLines # << >> /\ Head(PolledDataLines) = DataLine(FIELDS_EMPTY)

(***************************************************************************)
(* C19: a poll with outcome Ok makes the session NotReady exactly when the *)
(* data line of its transcript has nine empty fields; every other Ok       *)
(* transcript is handed to parse_gpsinfo and the session ends with what    *)
(* the parser returned or raised.                                          *)
(* The code looks for six commas in a row anywhere in the transcript.      *)
(***************************************************************************)
C19_NotReadyOnlyAllEmpty ==
    OutcomeOk(polled) =>
        IF PolledAllEmpty
        THEN ~rec_null /\ ret \in {Running, None}
        ELSE rec_null /\ ret = parse_gpsinfo(polled.serial_answer, utcoffset)

====
